---- MODULE Spec2Model ----
(***************************************************************************)
(* A model of the ASCII NetPBM decoder of src/src/index.ts (NetPBMImage):  *)
(* detect_format, get_tokens_from_ascii, process_ascii, process_ascii_P1,  *)
(* the constructor's dispatch and render.                                  *)
(*                                                                         *)
(* A JavaScript string is modelled as a sequence of one-character strings, *)
(* a JavaScript array as a sequence, and array offset k as index k+1.      *)
(***************************************************************************)
EXTENDS Integers, Sequences, FiniteSets, TLC

(***************************************************************************)
(* Characters.                                                              *)
(***************************************************************************)
SP == " "
LF == "\n"
TAB == "\t"
CR == "\r"
HASH == "#"

Digits == {"0", "1", "2", "3", "4", "5", "6", "7", "8", "9"}

\* The characters the ECMAScript grammar counts as white space or as a line
\* terminator, among the characters of the model's alphabet.
StrWhiteSpaceChars == {SP, LF, TAB, CR}

\* The ECMAScript line terminators of the alphabet: what "." in a regular
\* expression without the s flag does not match.
LineTerminators == {LF, CR}

DigitVal(c) ==
    CASE c = "0" -> 0 [] c = "1" -> 1 [] c = "2" -> 2 [] c = "3" -> 3
      [] c = "4" -> 4 [] c = "5" -> 5 [] c = "6" -> 6 [] c = "7" -> 7
      [] c = "8" -> 8 [] c = "9" -> 9

(***************************************************************************)
(* JavaScript values.  A number is an exact rational n/d (d > 0), NaN, or  *)
(* an infinity; undefined is what an absent array element or an unassigned *)
(* variable holds.                                                          *)
(***************************************************************************)
Num(i) == [k |-> "num", n |-> i, d |-> 1]
Rat(i, j) == [k |-> "num", n |-> i, d |-> j]
NaN == [k |-> "NaN", n |-> 0, d |-> 1]
Undefined == [k |-> "undefined", n |-> 0, d |-> 1]
Infinity(sign) == [k |-> "inf", n |-> sign, d |-> 1]

IsInt(v) == v.k = "num" /\ v.d = 1

\* ToNumber: undefined becomes NaN.
ToNumber(v) == IF v.k = "undefined" THEN NaN ELSE v

Sign(i) == IF i > 0 THEN 1 ELSE IF i < 0 THEN 0 - 1 ELSE 0
Abs(i) == IF i < 0 THEN 0 - i ELSE i

\* a / b
JSDiv(a, b) ==
    LET x == ToNumber(a)
        y == ToNumber(b)
    IN  IF x.k = "NaN" \/ y.k = "NaN" THEN NaN
        ELSE IF x.k = "inf" /\ y.k = "inf" THEN NaN
        ELSE IF x.k = "inf" THEN Infinity(x.n * (IF y.n < 0 THEN 0 - 1 ELSE 1))
        ELSE IF y.k = "inf" THEN Num(0)
        ELSE IF y.n = 0 THEN (IF x.n = 0 THEN NaN ELSE Infinity(Sign(x.n)))
        ELSE Rat(x.n * y.d * Sign(y.n), x.d * Abs(y.n))

\* a * b
JSMul(a, b) ==
    LET x == ToNumber(a)
        y == ToNumber(b)
    IN  IF x.k = "NaN" \/ y.k = "NaN" THEN NaN
        ELSE IF x.k = "inf" \/ y.k = "inf"
             THEN (IF Sign(x.n) * Sign(y.n) = 0 THEN NaN
                   ELSE Infinity(Sign(x.n) * Sign(y.n)))
        ELSE Rat(x.n * y.n, x.d * y.d)

\* a - b
JSSub(a, b) ==
    LET x == ToNumber(a)
        y == ToNumber(b)
    IN  IF x.k = "NaN" \/ y.k = "NaN" THEN NaN
        ELSE IF x.k = "inf" /\ y.k = "inf"
             THEN (IF x.n = y.n THEN NaN ELSE x)
        ELSE IF x.k = "inf" THEN x
        ELSE IF y.k = "inf" THEN Infinity(0 - y.n)
        ELSE Rat(x.n * y.d - y.n * x.d, x.d * y.d)

\* floor of the rational n/d, d > 0 (\div rounds toward minus infinity).
Floor(v) == v.n \div v.d

\* Storing a number into an element of a Uint8ClampedArray (ImageData.data):
\* ToUint8Clamp of ECMAScript: NaN becomes 0, the value is clamped to 0..255
\* and rounded to the nearest integer, a tie going to the even neighbour.
ToUint8Clamp(v) ==
    LET x == ToNumber(v)
    IN  IF x.k = "NaN" THEN 0
        ELSE IF x.k = "inf" THEN (IF x.n > 0 THEN 255 ELSE 0)
        ELSE IF x.n <= 0 THEN 0
        ELSE IF x.n >= 255 * x.d THEN 255
        ELSE LET f == Floor(x)
                 twice == 2 * x.n          \* 2 * number, over x.d
                 half == (2 * f + 1) * x.d \* 2 * (f + 0.5), over x.d
             IN  IF half < twice THEN f + 1
                 ELSE IF twice < half THEN f
                 ELSE IF f % 2 = 0 THEN f
                 ELSE f + 1

(***************************************************************************)
(* String and array methods.                                               *)
(***************************************************************************)
Min(a, b) == IF a < b THEN a ELSE b

\* s.slice(from) and s.slice(0, to), for 0 <= from, 0 <= to.
SliceFrom(s, from) == SubSeq(s, from + 1, Len(s))
SliceTo(s, to) == SubSeq(s, 1, Min(to, Len(s)))

\* s.split(c) for a one-character separator c: the pieces between the
\* separators, empty pieces included; the empty string splits into [""].
RECURSIVE SplitAcc(_, _, _, _)
SplitAcc(s, c, i, cur) ==
    IF i > Len(s) THEN <<cur>>
    ELSE IF s[i] = c THEN <<cur>> \o SplitAcc(s, c, i + 1, <<>>)
    ELSE SplitAcc(s, c, i + 1, Append(cur, s[i]))

Split(s, c) == SplitAcc(s, c, 1, <<>>)

\* s.split(""): the characters of s, each a string of length one.
SplitChars(s) == [i \in 1..Len(s) |-> <<s[i]>>]

\* a.join(sep) for an array a of strings.
RECURSIVE Join(_, _)
Join(a, sep) ==
    IF Len(a) = 0 THEN <<>>
    ELSE IF Len(a) = 1 THEN a[1]
    ELSE a[1] \o sep \o Join(Tail(a), sep)

\* The end (exclusive, as an index) of the longest run of characters from
\* index i on that "." matches: it stops at a line terminator.
RECURSIVE DotStarEnd(_, _)
DotStarEnd(s, i) ==
    IF i > Len(s) \/ s[i] \in LineTerminators THEN i
    ELSE DotStarEnd(s, i + 1)

\* line.replace(/#.*/, ""): the first match of '#' and the characters "."
\* matches after it is removed; without a match the line is unchanged.
StripComment(line) ==
    IF \E i \in 1..Len(line) : line[i] = HASH
    THEN LET h == CHOOSE i \in 1..Len(line) :
                      /\ line[i] = HASH
                      /\ \A j \in 1..(i - 1) : line[j] # HASH
         IN  SubSeq(line, 1, h - 1) \o SubSeq(line, DotStarEnd(line, h + 1), Len(line))
    ELSE line

\* parseInt(x) with no radix, for a string x without the prefix 0x: leading
\* white space is skipped, then an optional sign, then the longest run of
\* decimal digits is read; with no digit the result is NaN.
RECURSIVE SkipWhiteSpace(_, _)
SkipWhiteSpace(s, i) ==
    IF i <= Len(s) /\ s[i] \in StrWhiteSpaceChars THEN SkipWhiteSpace(s, i + 1)
    ELSE i

RECURSIVE DigitsValue(_, _, _)
DigitsValue(s, i, acc) ==
    IF i <= Len(s) /\ s[i] \in Digits
    THEN DigitsValue(s, i + 1, 10 * acc + DigitVal(s[i]))
    ELSE acc

parseInt(x) ==
    LET b == SkipWhiteSpace(x, 1)
        signed == b <= Len(x) /\ x[b] \in {"-", "+"}
        sign == IF b <= Len(x) /\ x[b] = "-" THEN 0 - 1 ELSE 1
        d == IF signed THEN b + 1 ELSE b
    IN  IF d <= Len(x) /\ x[d] \in Digits
        THEN Num(sign * DigitsValue(x, d, 0))
        ELSE NaN

\* a.map(x => parseInt(x))
MapParseInt(a) == [i \in 1..Len(a) |-> parseInt(a[i])]

\* a[k] for an array offset k: undefined outside the array.
At(a, k) == IF 0 <= k /\ k < Len(a) THEN a[k + 1] ELSE Undefined

(***************************************************************************)
(* NetPBMImage.get_tokens_from_ascii, process_ascii, process_ascii_P1 and  *)
(* detect_format.                                                          *)
(***************************************************************************)
magicSize == 2

get_tokens_from_ascii(ascii) ==
    LET rest == SliceFrom(ascii, magicSize)                           \* .slice(2)
        lines == Split(rest, LF)                                      \* .split("\n")
        stripped == [i \in 1..Len(lines) |-> StripComment(lines[i])]  \* .map(replace)
        oneline == Join(stripped, <<SP>>)                             \* .join(" ")
        pieces == Split(oneline, SP)                                  \* .split(" ")
    IN  SelectSeq(pieces, LAMBDA x : Len(x) > 0)                      \* .filter

process_ascii(ascii) == MapParseInt(get_tokens_from_ascii(ascii))

\* process_ascii_P1 parsing each token whole, as process_ascii does.
process_ascii_P1_whole(ascii) == MapParseInt(get_tokens_from_ascii(ascii))

process_ascii_P1(ascii) ==
    LET tokens == get_tokens_from_ascii(ascii)
        dimensions == MapParseInt(SliceTo(tokens, 2))
        numbers == MapParseInt(SplitChars(Join(SliceFrom(tokens, 2), <<>>)))
    IN  dimensions \o numbers

\* The keys of MAGICS.  No property inherited from Object.prototype has a
\* name of two characters or fewer, so "magic in MAGICS" is membership here.
MAGICS == {<<"P", "1">>, <<"P", "2">>, <<"P", "3">>}

\* detect_format with the binary magics of enum NetPBMFormat among the keys.
detect_format_binary(imagedata) ==
    LET magic == SliceTo(imagedata, magicSize)
    IN  IF magic \in MAGICS \cup {<<"P", "4">>, <<"P", "5">>, <<"P", "6">>}
        THEN magic[1] \o magic[2] ELSE "throw"

\* The format detected, or "throw" where detect_format throws.
detect_format(imagedata) ==
    LET magic == SliceTo(imagedata, magicSize)
    IN  IF magic \in MAGICS THEN magic[1] \o magic[2] ELSE "throw"

(***************************************************************************)
(* NetPBMImage.render.                                                      *)
(***************************************************************************)
\* The conversion of a constructor argument of ImageData to unsigned long:
\* NaN, undefined and the infinities become 0; a negative integer wraps to
\* 2^32 minus its magnitude.
ULongIsZero(v) == LET x == ToNumber(v) IN x.k # "num" \/ x.n = 0
ULongWraps(v) == LET x == ToNumber(v) IN x.k = "num" /\ x.n < 0

\* What new ImageData(sw, sh) throws: IndexSizeError when a side is 0, and
\* RangeError when 4 * sw * sh bytes cannot be allocated, which is the case
\* of every wrapped negative side (at least 4 * (2^32 - 10) bytes here).
\* "none" when the object is created.
ImageDataThrows(image_size) ==
    IF ULongIsZero(image_size.x) \/ ULongIsZero(image_size.y) THEN "IndexSizeError"
    ELSE IF ULongWraps(image_size.x) \/ ULongWraps(image_size.y) THEN "RangeError"
    ELSE "none"

\* new ImageData(sw, sh): transparent black, 4 bytes a pixel.
NewImageData(sw, sh) ==
    [width |-> sw, height |-> sh, data |-> [k \in 1..(4 * sw * sh) |-> 0]]

numbersPerPixel(format) ==
    CASE format = "P1" -> 1 [] format = "P2" -> 1 [] format = "P3" -> 3

\* ChannelValue reading the first number of the pixel for every channel.
ChannelValue_first(format, depth, numbers, pnum, i) ==
    IF format = "P1"
    THEN JSSub(Num(255), JSMul(At(numbers, numbersPerPixel(format) * pnum), Num(255)))
    ELSE JSMul(JSDiv(At(numbers, numbersPerPixel(format) * pnum), depth), Num(255))

\* ChannelValue without the inversion of the bitmap's bit.
ChannelValue_plain(format, depth, numbers, pnum, i) ==
    IF format = "P1"
    THEN JSMul(At(numbers, numbersPerPixel(format) * pnum), Num(255))
    ELSE JSMul(JSDiv(At(numbers, numbersPerPixel(format) * pnum
                                   + (i % numbersPerPixel(format))), depth),
               Num(255))

\* The right-hand side assigned to data[4*pnum+i], for i in 0..2.
ChannelValue(format, depth, numbers, pnum, i) ==
    IF format = "P1"
    THEN JSSub(Num(255), JSMul(At(numbers, numbersPerPixel(format) * pnum), Num(255)))
    ELSE JSMul(JSDiv(At(numbers, numbersPerPixel(format) * pnum
                                   + (i % numbersPerPixel(format))), depth),
               Num(255))

\* StorePixel without the store of the alpha channel.
StorePixel_noalpha(data, format, depth, numbers, pnum) ==
    [data EXCEPT ![4 * pnum + 0 + 1] = ToUint8Clamp(ChannelValue(format, depth, numbers, pnum, 0)),
                 ![4 * pnum + 1 + 1] = ToUint8Clamp(ChannelValue(format, depth, numbers, pnum, 1)),
                 ![4 * pnum + 2 + 1] = ToUint8Clamp(ChannelValue(format, depth, numbers, pnum, 2))]

\* The body of the two loops for pixel number pnum: three colour stores and
\* the alpha store.
StorePixel(data, format, depth, numbers, pnum) ==
    [data EXCEPT ![4 * pnum + 0 + 1] = ToUint8Clamp(ChannelValue(format, depth, numbers, pnum, 0)),
                 ![4 * pnum + 1 + 1] = ToUint8Clamp(ChannelValue(format, depth, numbers, pnum, 1)),
                 ![4 * pnum + 2 + 1] = ToUint8Clamp(ChannelValue(format, depth, numbers, pnum, 2)),
                 ![4 * pnum + 3 + 1] = 255]

\* pixel number (offset) of column x in row y
PixelNumber(sx, y, x) == y * sx + x

\* for (y = 0; y < image_size.y; y++) for (x = 0; x < image_size.x; x++)
RECURSIVE RenderLoop(_, _, _, _, _, _, _, _)
RenderLoop(format, sx, sy, depth, numbers, data, y, x) ==
    IF ~(y < sy) THEN data
    ELSE IF ~(x < sx) THEN RenderLoop(format, sx, sy, depth, numbers, data, y + 1, 0)
    ELSE RenderLoop(format, sx, sy, depth, numbers,
                    StorePixel(data, format, depth, numbers, PixelNumber(sx, y, x)),
                    y, x + 1)

\* render, where new ImageData does not throw (both sides positive integers).
render(format, image_size, depth, numbers) ==
    LET newImageData == NewImageData(image_size.x.n, image_size.y.n)
    IN  [newImageData EXCEPT
            !.data = RenderLoop(format, image_size.x.n, image_size.y.n, depth,
                                numbers, newImageData.data, 0, 0)]

(***************************************************************************)
(* The constructor of NetPBMImage, as a function of its argument: what     *)
(* NetPBM.parse(ascii) ends in.                                            *)
(***************************************************************************)
NoImage == [width |-> 0, height |-> 0, data |-> <<>>]

Thrown(e) == [outcome |-> "thrown", error |-> e, imageData |-> NoImage]
Returned(img) == [outcome |-> "done", error |-> "none", imageData |-> img]

\* hdrsize of the bitmap case used for every format.
hdrsizeOf_two(format) == 2

hdrsizeOf(format) == IF format = "P1" THEN 2 ELSE 3

numbersOf(format, ascii) ==
    IF format = "P1" THEN process_ascii_P1(ascii) ELSE process_ascii(ascii)

NetPBMImage(ascii) ==
    LET format == detect_format(ascii)
    IN  IF format = "throw" THEN Thrown("Unsupported NetPBM format")
        ELSE LET nums == numbersOf(format, ascii)
                 size == [x |-> At(nums, 0), y |-> At(nums, 1)]
                 dep == IF format = "P1" THEN Undefined ELSE At(nums, 2)
                 rest == SliceFrom(nums, hdrsizeOf(format))
             IN  IF ImageDataThrows(size) # "none" THEN Thrown(ImageDataThrows(size))
                 ELSE Returned(render(format, size, dep, rest))

(***************************************************************************)
(* The texts the decoder is run on: a magic, then tokens laid out with     *)
(* separators and comments.                                                *)
(***************************************************************************)
\* The most sample tokens of an input.
MaxSamples == 3

Magics == {<<"P", "1">>, <<"P", "2">>, <<"P", "3">>, <<"P", "4">>, <<"P", "5">>,
           <<"P", "6">>, <<"P", "9">>, <<"p", "2">>, <<"2", "P">>, <<SP, "P">>}

\* Texts too short to hold anything after the magic, or the magic itself.
ShortTexts == {<<>>, <<"P">>, <<"1">>, <<"P", "2">>, <<"P", "4">>}

\* Widths and heights new ImageData accepts, and ones it throws on.
WidthToks == {<<"1">>, <<"2">>, <<"1", "0">>}
BadWidthToks == {<<"0">>, <<"a">>, <<"-", "1">>}
HeightToks == {<<"1">>, <<"2">>}
BadHeightToks == {<<"0">>}
MaxToks == {<<"2">>, <<"6">>, <<"2", "5", "5">>, <<"0">>}
SampleToks == {<<"0">>, <<"1">>, <<"2", "5", "5">>}

\* Sequences of at most n elements of S.
SeqUpTo(S, n) == UNION {[1..k -> S] : k \in 0..n}

\* The token sequences: a header (with the maximum value for P2 and P3) whose
\* sides are accepted, followed by any samples; a header with a side that is
\* not, followed by two samples; and the headers cut short.
TokenSeqs(magic) ==
    LET dims == {<<w, h>> : w \in WidthToks, h \in HeightToks}
        baddims == {<<w, h>> : w \in BadWidthToks, h \in HeightToks \cup BadHeightToks}
                   \cup {<<w, h>> : w \in WidthToks, h \in BadHeightToks}
        hdrs(D) == IF magic = <<"P", "1">> THEN D
                   ELSE {d \o <<m>> : d \in D, m \in MaxToks}
        short == {<<>>} \cup {<<w>> : w \in WidthToks}
                 \cup (IF magic = <<"P", "1">> THEN {} ELSE dims)
    IN  IF magic \in MAGICS
        THEN {h \o s : h \in hdrs(dims), s \in SeqUpTo(SampleToks, MaxSamples)}
             \cup {h \o <<<<"0">>, <<"1">>>> : h \in hdrs(baddims)}
             \cup short
        ELSE {<<<<"1">>, <<"1">>, <<"2", "5", "5">>, <<"0">>>>}

\* A layout gives the text before the first token (m), between width and
\* height (h), before the third and the fourth token (l), before each later
\* token (s) and after the last one (e).
PlainLayout == [m |-> <<LF>>, h |-> <<SP>>, l |-> <<LF>>, s |-> <<SP>>, e |-> <<LF>>]

Layouts ==
    { PlainLayout,
      [m |-> <<LF>>, h |-> <<SP>>, l |-> <<LF>>, s |-> <<TAB>>, e |-> <<>>],
      [m |-> <<CR, LF>>, h |-> <<SP>>, l |-> <<CR, LF>>, s |-> <<SP>>, e |-> <<CR, LF>>],
      [m |-> <<LF, HASH, "a", SP, "1", LF>>, h |-> <<SP, SP>>,
       l |-> <<SP, HASH, "c", HASH, LF>>, s |-> <<LF>>, e |-> <<HASH>>],
      [m |-> <<LF>>, h |-> <<SP>>, l |-> <<LF>>, s |-> <<SP>>,
       e |-> <<SP, HASH, "x", CR, "1", LF>>] }

SepBefore(lay, i) ==
    IF i = 1 THEN lay.m ELSE IF i = 2 THEN lay.h ELSE IF i <= 4 THEN lay.l ELSE lay.s

RECURSIVE LayOut(_, _, _)
LayOut(toks, lay, i) ==
    IF i > Len(toks) THEN lay.e
    ELSE SepBefore(lay, i) \o toks[i] \o LayOut(toks, lay, i + 1)

Text(magic, toks, lay) == magic \o LayOut(toks, lay, 1)

Inputs ==
    UNION {{Text(magic, toks, lay) : toks \in TokenSeqs(magic), lay \in Layouts} :
           magic \in Magics}
    \cup ShortTexts

(***************************************************************************)
(* The state machine: one run of NetPBM.parse(ascii), i.e. of the          *)
(* constructor of NetPBMImage, stepping through its calls.                 *)
(***************************************************************************)
VARIABLES ascii, pc, format, numbers, image_size, depth, hdrsize, imageData, error

vars == <<ascii, pc, format, numbers, image_size, depth, hdrsize, imageData, error>>

Init ==
    /\ ascii \in Inputs
    /\ pc = "start"
    /\ format = "none"
    /\ numbers = <<>>
    /\ image_size = [x |-> Undefined, y |-> Undefined]
    /\ depth = Undefined
    /\ hdrsize = 0
    /\ imageData = NoImage
    /\ error = "none"

\* const format = NetPBMImage.detect_format(ascii), which may throw
DetectFormat ==
    /\ pc = "start"
    /\ IF detect_format(ascii) = "throw"
       THEN /\ pc' = "thrown"
            /\ error' = Thrown("Unsupported NetPBM format").error
            /\ UNCHANGED format
       ELSE /\ pc' = "detected"
            /\ format' = detect_format(ascii)
            /\ UNCHANGED error
    /\ UNCHANGED <<ascii, numbers, image_size, depth, hdrsize, imageData>>

\* case NetPBMFormat.P1
ProcessP1 ==
    /\ pc = "detected"
    /\ format = "P1"
    /\ numbers' = numbersOf(format, ascii)
    /\ image_size' = [x |-> At(numbers', 0), y |-> At(numbers', 1)]
    /\ hdrsize' = hdrsizeOf(format)
    /\ pc' = "processed"
    /\ UNCHANGED <<ascii, format, depth, imageData, error>>

\* case NetPBMFormat.P2: case NetPBMFormat.P3
ProcessP2P3 ==
    /\ pc = "detected"
    /\ format \in {"P2", "P3"}
    /\ numbers' = numbersOf(format, ascii)
    /\ image_size' = [x |-> At(numbers', 0), y |-> At(numbers', 1)]
    /\ depth' = At(numbers', 2)
    /\ hdrsize' = hdrsizeOf(format)
    /\ pc' = "processed"
    /\ UNCHANGED <<ascii, format, imageData, error>>

\* this.imageData = this.render(format, image_size, depth, numbers.slice(hdrsize))
Render ==
    /\ pc = "processed"
    /\ IF ImageDataThrows(image_size) # "none"
       THEN /\ pc' = "thrown"
            /\ error' = ImageDataThrows(image_size)
            /\ UNCHANGED imageData
       ELSE /\ pc' = "done"
            /\ imageData' = render(format, image_size, depth, SliceFrom(numbers, hdrsize))
            /\ UNCHANGED error
    /\ UNCHANGED <<ascii, format, numbers, image_size, depth, hdrsize>>

Next == DetectFormat \/ ProcessP1 \/ ProcessP2P3 \/ Render

Spec == Init /\ [][Next]_vars

\* The stepwise run ends as the constructor, taken as a function, does.
RunAgrees ==
    /\ pc = "done" => NetPBMImage(ascii) = Returned(imageData)
    /\ pc = "thrown" => NetPBMImage(ascii) = Thrown(error)

(***************************************************************************)
(* Notions the properties below are stated with.                           *)
(***************************************************************************)
\* The first two characters are exactly "P1", "P2" or "P3".
SupportedMagic(text) ==
    Len(text) >= 2 /\ text[1] = "P" /\ text[2] \in {"1", "2", "3"}

Channels(f) == IF f = "P3" THEN 3 ELSE 1

\* The samples of the text: for P1 the characters of the tokens after width
\* and height, each read as a digit; for P2 and P3 the tokens after width,
\* height and maxValue, each read as an integer.
Samples ==
    LET toks == get_tokens_from_ascii(ascii)
    IN  IF format = "P1"
        THEN MapParseInt(SplitChars(Join(SliceFrom(toks, 2), <<>>)))
        ELSE MapParseInt(SliceFrom(toks, 3))

\* The pixels of the raster returned.
Pixels == 0..(imageData.width * imageData.height - 1)

\* The byte at array offset k of the raster returned.
Byte(k) == imageData.data[k + 1]

\* The sample of channel c of pixel p among the samples S: S[p] for P1 and
\* P2, S[3p + c] for P3.
SampleOf(S, p, c) == At(S, IF format = "P3" THEN 3 * p + c ELSE p)

InRange(v, lo, hi) == IsInt(v) /\ lo <= v.n /\ v.n <= hi

PositiveInt(v) == IsInt(v) /\ v.n > 0

(***************************************************************************)
(* C1.  A text whose sample supply is shorter than width*height*channels   *)
(* never decodes to a raster: whenever a raster is returned, the samples   *)
(* handed to render are at least width*height*channels, so no pixel is     *)
(* filled from a missing sample.                                           *)
(***************************************************************************)
C1_ShortSupplyReturnsNoRaster ==
    pc = "done" =>
        Len(Samples) >= imageData.width * imageData.height * Channels(format)

(***************************************************************************)
(* C2.  A header token (width, height, and for P2/P3 maxValue) that is     *)
(* missing, is not an integer or is <= 0 makes decoding fail: whenever a   *)
(* raster is returned, width, height and (P2/P3) maxValue are positive     *)
(* integers.                                                               *)
(***************************************************************************)
C2_BadHeaderReturnsNoRaster ==
    pc = "done" =>
        /\ PositiveInt(image_size.x)
        /\ PositiveInt(image_size.y)
        /\ format \in {"P2", "P3"} => PositiveInt(depth)

(***************************************************************************)
(* C3.  A text whose first two characters are not exactly P1, P2 or P3     *)
(* fails with the unsupported-format error before any tokenizing or        *)
(* rendering: the run is at its start or has thrown that error, no format  *)
(* is set, nothing is tokenized and no raster exists.                      *)
(***************************************************************************)
C3_UnsupportedMagicThrowsFirst ==
    ~SupportedMagic(ascii) =>
        /\ pc \in {"start", "thrown"}
        /\ pc = "thrown" => error = "Unsupported NetPBM format"
        /\ format = "none"
        /\ numbers = <<>>
        /\ imageData = NoImage

C3_Witness ==
    /\ pc = "thrown"
    /\ error = "Unsupported NetPBM format"
    /\ SliceTo(ascii, 2) = <<"P", "4">>
    /\ Len(ascii) > 2

(***************************************************************************)
(* C4.  For P2 and P3 with 0 <= sample <= maxValue, every stored R, G, B   *)
(* byte is a function of the pixel's own sample (samples[p], or            *)
(* samples[3p + c] for channel c in P3) and of maxValue.                   *)
(*                                                                         *)
(* As claimed: the byte is floor(sample * 255 / maxValue).                 *)
(***************************************************************************)
C4_ByteIsFloor ==
    (pc = "done" /\ format \in {"P2", "P3"} /\ PositiveInt(depth)) =>
        LET S == Samples
        IN  \A p \in Pixels : \A c \in 0..2 :
                InRange(SampleOf(S, p, c), 0, depth.n) =>
                    Byte(4 * p + c) = (SampleOf(S, p, c).n * 255) \div depth.n

\* n/d rounded to the nearest integer, a tie going to the even neighbour
\* (n >= 0, d > 0).
RoundHalfEven(n, d) ==
    LET q == n \div d
        r == n % d
    IN  IF 2 * r < d THEN q
        ELSE IF 2 * r > d THEN q + 1
        ELSE IF q % 2 = 0 THEN q ELSE q + 1

(***************************************************************************)
(* C4 as amended: the byte is sample * 255 / maxValue rounded to the       *)
(* nearest integer, a tie going to the even integer (the store into the    *)
(* Uint8ClampedArray of ImageData rounds, it does not truncate).           *)
(***************************************************************************)
C4_ByteIsNearest ==
    (pc = "done" /\ format \in {"P2", "P3"} /\ PositiveInt(depth)) =>
        LET S == Samples
        IN  \A p \in Pixels : \A c \in 0..2 :
                InRange(SampleOf(S, p, c), 0, depth.n) =>
                    Byte(4 * p + c) = RoundHalfEven(SampleOf(S, p, c).n * 255, depth.n)

\* A P3 raster whose first pixel has three different in-range samples, one of
\* them a tie that rounds down to the even neighbour (1/6 * 255 = 42.5).
C4_Witness ==
    /\ pc = "done"
    /\ format = "P3"
    /\ depth = Num(6)
    /\ Len(Samples) >= 3
    /\ Samples[1] = Num(0) /\ Samples[2] = Num(1) /\ Samples[3] = Num(1)
    /\ Byte(0) = 0 /\ Byte(1) = 42 /\ Byte(2) = 42

(***************************************************************************)
(* C7.  In every raster returned, whatever the format, the samples and     *)
(* maxValue, the alpha byte at offset 4p+3 of every pixel p in             *)
(* 0..width*height-1 is 255.                                               *)
(***************************************************************************)
C7_AlphaIsOpaque ==
    pc = "done" =>
        /\ Len(imageData.data) = 4 * imageData.width * imageData.height
        /\ \A p \in Pixels : Byte(4 * p + 3) = 255

\* A raster with a pixel whose samples are missing and maxValue 0.
C7_Witness ==
    /\ pc = "done"
    /\ format = "P3"
    /\ depth = Num(0)
    /\ imageData.width * imageData.height = 2
    /\ Len(Samples) = 1
    /\ Byte(7) = 255

(***************************************************************************)
(* C8.  For P1 every R, G, B byte of every pixel is 0 or 255; a pixel      *)
(* whose sample is 0 has 255 on the three channels and a pixel whose       *)
(* sample is 1 has 0 on the three channels.                                *)
(***************************************************************************)
C8_BitmapIsBlackOrWhite ==
    (pc = "done" /\ format = "P1") =>
        LET S == Samples
        IN  \A p \in Pixels : \A c \in 0..2 :
                /\ Byte(4 * p + c) \in {0, 255}
                /\ SampleOf(S, p, c) = Num(0) => Byte(4 * p + c) = 255
                /\ SampleOf(S, p, c) = Num(1) => Byte(4 * p + c) = 0

\* A 2x1 bitmap with a white pixel followed by a black one.
C8_Witness ==
    /\ pc = "done"
    /\ format = "P1"
    /\ imageData.width = 2 /\ imageData.height = 1
    /\ SampleOf(Samples, 0, 0) = Num(0) /\ SampleOf(Samples, 1, 0) = Num(1)
    /\ imageData.data = <<255, 255, 255, 255, 0, 0, 0, 255>>

(***************************************************************************)
(* C9.  For P2 with maxValue = 255 and samples in 0..255, the R, G and B   *)
(* bytes of pixel p all equal samples[p], p counting the pixels in         *)
(* row-major order.                                                        *)
(***************************************************************************)
C9_GrayIdentityAt255 ==
    (pc = "done" /\ format = "P2" /\ depth = Num(255)) =>
        LET S == Samples
        IN  \A p \in Pixels : \A c \in 0..2 :
                InRange(At(S, p), 0, 255) => Byte(4 * p + c) = At(S, p).n

\* A 1x2 grayscale raster (two rows) with samples 1 and 255.
C9_Witness ==
    /\ pc = "done"
    /\ format = "P2"
    /\ depth = Num(255)
    /\ imageData.width = 1 /\ imageData.height = 2
    /\ Len(Samples) >= 2 /\ Samples[1] = Num(1) /\ Samples[2] = Num(255)
    /\ imageData.data = <<1, 1, 1, 255, 255, 255, 255, 255>>

(***************************************************************************)
(* Variations of a text.                                                   *)
(***************************************************************************)
\* The longest text of a comment inserted into an input.
MaxCommentLen == 2

WhiteSpace == {SP, LF, TAB, CR}

\* The text with the character at index i replaced by w.
Subst(text, i, w) == [text EXCEPT ![i] = w]

\* The text with t inserted after its first p characters.
InsertAt(text, p, t) == SubSeq(text, 1, p) \o t \o SubSeq(text, p + 1, Len(text))

\* The ends of the lines after the magic: the places, as a count of characters
\* before them, where a line of the text ends (at a newline or at the end).
LineEnds(text) ==
    {p \in magicSize..Len(text) : p = Len(text) \/ text[p + 1] = LF}

\* The texts of a comment: any characters but the newline that ends it.
CommentTexts == SeqUpTo({"a", "1", SP, HASH, TAB, CR}, MaxCommentLen)

(***************************************************************************)
(* C5.  The tokenizer splits on every kind of white space (space, newline, *)
(* tab, carriage return): two texts without comments that differ only in   *)
(* which white-space character stands at a place yield the same tokens in  *)
(* the same order, and no token holds a white-space character.             *)
(***************************************************************************)
C5_AnyWhiteSpaceSeparates ==
    (pc = "done" /\ \A i \in 1..Len(ascii) : ascii[i] # HASH) =>
        /\ \A i \in (magicSize + 1)..Len(ascii) : \A w \in WhiteSpace :
               ascii[i] \in WhiteSpace =>
                   /\ get_tokens_from_ascii(Subst(ascii, i, w))
                          = get_tokens_from_ascii(ascii)
                   /\ NetPBMImage(Subst(ascii, i, w)) = Returned(imageData)
        /\ \A t \in 1..Len(get_tokens_from_ascii(ascii)) :
               \A j \in 1..Len(get_tokens_from_ascii(ascii)[t]) :
                   get_tokens_from_ascii(ascii)[t][j] \notin WhiteSpace

\* What does hold of the tokenizer: a space and a newline are interchangeable.
SpaceAndNewlineSeparate ==
    (pc = "done" /\ \A i \in 1..Len(ascii) : ascii[i] # HASH) =>
        \A i \in (magicSize + 1)..Len(ascii) : \A w \in {SP, LF} :
            ascii[i] \in {SP, LF} =>
                /\ get_tokens_from_ascii(Subst(ascii, i, w)) = get_tokens_from_ascii(ascii)
                /\ NetPBMImage(Subst(ascii, i, w)) = Returned(imageData)

(***************************************************************************)
(* C6.  Comment text never affects the tokens: inserting '#' and any text  *)
(* at the end of any line after the magic (the magic line, a header line,  *)
(* a sample line, an empty line) leaves the token sequence unchanged.      *)
(***************************************************************************)
C6_CommentsNeverAffectTokens ==
    pc = "done" =>
        \A p \in LineEnds(ascii) : \A c \in CommentTexts :
            get_tokens_from_ascii(InsertAt(ascii, p, <<HASH>> \o c))
                = get_tokens_from_ascii(ascii)

\* What does hold of the comment stripping: where neither the text nor the
\* comment holds a carriage return, the comment leaves the tokens unchanged.
CommentsWithoutReturnNeverAffectTokens ==
    (pc = "done" /\ \A i \in 1..Len(ascii) : ascii[i] # CR) =>
        \A p \in LineEnds(ascii) : \A c \in CommentTexts :
            (\A j \in 1..Len(c) : c[j] # CR) =>
                get_tokens_from_ascii(InsertAt(ascii, p, <<HASH>> \o c))
                    = get_tokens_from_ascii(ascii)

(***************************************************************************)
(* Regroupings of the sample digits of a bitmap.                           *)
(***************************************************************************)
\* The characters chars cut into tokens after the positions in cuts.
RECURSIVE GroupAcc(_, _, _, _)
GroupAcc(chars, cuts, i, cur) ==
    IF i > Len(chars) THEN (IF Len(cur) = 0 THEN <<>> ELSE <<cur>>)
    ELSE IF i \in cuts THEN <<Append(cur, chars[i])>> \o GroupAcc(chars, cuts, i + 1, <<>>)
    ELSE GroupAcc(chars, cuts, i + 1, Append(cur, chars[i]))

Group(chars, cuts) == GroupAcc(chars, cuts, 1, <<>>)

\* The positions after which the tokens toks cut their concatenation.
RECURSIVE OwnCuts(_, _, _)
OwnCuts(toks, i, before) ==
    IF i >= Len(toks) THEN {}
    ELSE {before + Len(toks[i])} \cup OwnCuts(toks, i + 1, before + Len(toks[i]))

\* Groupings of the sample characters: all in one token, one character a
\* token, and the text's own grouping with one cut added or removed.
Regroupings(sampleToks) ==
    LET chars == Join(sampleToks, <<>>)
        inner == 1..(Len(chars) - 1)
        own == OwnCuts(sampleToks, 1, 0)
    IN  {Group(chars, {}), Group(chars, inner)}
        \cup {Group(chars, (own \ {k}) \cup ({k} \ own)) : k \in inner}

(***************************************************************************)
(* C10.  For P1 white space between the sample digits is optional: the     *)
(* tokens after width and height are concatenated and read a character a   *)
(* sample, so a text with the same header and the same sample characters   *)
(* grouped into tokens in another way decodes to the same raster; width    *)
(* and height are parsed as whole tokens.                                  *)
(***************************************************************************)
C10_BitmapGroupingIsFree ==
    (pc = "done" /\ format = "P1") =>
        LET toks == get_tokens_from_ascii(ascii)
        IN  /\ image_size.x = parseInt(toks[1])
            /\ image_size.y = parseInt(toks[2])
            /\ Len(SliceFrom(numbers, hdrsize)) = Len(Join(SliceFrom(toks, 2), <<>>))
            /\ \A g \in Regroupings(SliceFrom(toks, 2)) :
                   NetPBMImage(Text(<<"P", "1">>, SliceTo(toks, 2) \o g, PlainLayout))
                       = Returned(imageData)

\* A 10x1 bitmap whose text gives the samples 0 1 as two tokens (regrouped as
\* the one token 01), white then black.
C10_Witness ==
    /\ pc = "done"
    /\ format = "P1"
    /\ image_size.x = Num(10)
    /\ SliceFrom(get_tokens_from_ascii(ascii), 2) = <<<<"0">>, <<"1">>>>
    /\ <<<<"0", "1">>>> \in Regroupings(SliceFrom(get_tokens_from_ascii(ascii), 2))
    /\ SubSeq(imageData.data, 1, 8) = <<255, 255, 255, 255, 0, 0, 0, 255>>

====
